---- MODULE Spec2Model ----
(***************************************************************************)
(* A model of wyh7/MLE-agent:                                              *)
(*   - mle/utils/memory.py : ChromaDBMemory and LanceDBMemory, two facades *)
(*     over a persistent vector store (SpecMem, SpecPair);                 *)
(*   - agent/utils/chat.py : Chat, the streaming read-eval loop (SpecChat).*)
(* The vector-store clients (chromadb, lancedb) are third-party code: they *)
(* appear here by the documented effect of the calls the facades make      *)
(* (get_or_create_collection, get_collection, delete_collection, reset,    *)
(* table_names, create_table, open_table, drop_table), each named after    *)
(* its call site.                                                          *)
(***************************************************************************)
EXTENDS Integers, Sequences, FiniteSets, TLC

VARIABLES
    backend,     \* which facade the run drives: "chroma", "lance" or "both"
    db,          \* db[b]: the persisted store behind backend b
    ready,       \* ready[b]: an instance of backend b has been constructed
    res,         \* res[b]: what the last call on backend b gave its caller
    nextId,      \* the next value uuid.uuid4() gives (always a fresh one)
    allowReset,  \* chromadb's ALLOW_RESET setting of this run
    pc,           \* where Chat.start is: "prompt", "generating", "streaming",
                  \* "finishing", "exited" (exit()) or "crashed" (an exception left start)
    chat_history, \* Chat.chat_history
    prompt,       \* handle_streaming's argument
    text,         \* handle_streaming's local `text`
    block,        \* handle_streaming's local `block` is still the cursor
    nchunks,      \* chunks the response has produced in this turn
    calls,        \* calls of agent.completions made for this prompt
    passed,       \* the history the last completions call was given
    outcome,      \* how the completion of this turn went
    yielded,      \* the delta contents of the chunks chat_generator yielded this turn
    entryLen      \* len(chat_history) when handle_streaming was entered

memVars == <<backend, db, ready, res, nextId, allowReset>>

chatVars == <<pc, chat_history, prompt, text, block, nchunks, calls, passed,
              outcome, yielded, entryLen>>

vars == <<memVars, chatVars>>

----------------------------------------------------------------------------
(* Bounds of the model *)

\* the longest texts / queries / ids list passed to one add
MaxTexts == 2
\* the number of uuid4 values drawn in one run
MaxGen == 2
\* the most rows one table holds
MaxRows == 2
\* the number of uuid4 values each backend draws in a side-by-side run
MaxPairGen == 3
\* the prompts one chat session reads
MaxTurns == 2
\* the chunks one streamed response produces
MaxChunks == 2
\* the n_results values passed to query and peek
NResults == {1, 2}

----------------------------------------------------------------------------
(* Values *)

Backends == {"chroma", "lance"}

\* self.collection_name / self.table_name
DefaultName == "memory"

Names == {DefaultName, "notes"}

\* a collection / table_name argument: "None" is the argument left out
NameArgs == Names \cup {"None"}

Texts == {"a"}

\* ids a caller supplies; uuid4 values are the positive numbers
ExplicitIds == {-1}

Platforms == {"OpenAI", "Other"}

SeqsUpTo(S, k) == UNION {[1..m -> S] : m \in 0..k}

NonEmptySeqs(S, k) == SeqsUpTo(S, k) \ {<<>>}

Min(a, b) == IF a < b THEN a ELSE b

Range(s) == {s[i] : i \in 1..Len(s)}

\* an optional list argument: None, or a list (possibly empty)
NoneArg == [given |-> FALSE, v |-> <<>>]

ListArg(s) == [given |-> TRUE, v |-> s]

IdsArgs == {NoneArg} \cup {ListArg(s) : s \in SeqsUpTo(ExplicitIds, MaxTexts)}

\* Python truthiness of an optional list: None and [] are falsy
Truthy(arg) == arg.given /\ arg.v # <<>>

EmptyStore == [names |-> {}, rows |-> [n \in Names |-> <<>>]]

Exists(st, n) == n \in st.names

\* what a call gives its caller: kind "ok" and a value, or the error raised
Out(op, name, kind, ids, n, hits) ==
    [op |-> op, name |-> name, kind |-> kind, ids |-> ids, n |-> n, hits |-> hits]

NoOut == Out("none", "None", "ok", <<>>, 0, <<>>)

\* uuid.uuid4() called k times
Uuids(nxt, k) == [i \in 1..k |-> nxt + i - 1]

----------------------------------------------------------------------------
(* The chromadb client, by the effect of the calls ChromaDBMemory makes *)

\* client.get_or_create_collection(name)
GetOrCreateCollection(st, n) == [st EXCEPT !.names = @ \cup {n}]

HasDuplicates(s) == \E i, j \in 1..Len(s) : i # j /\ s[i] = s[j]

IdsOf(rows) == {rows[i].id : i \in 1..Len(rows)}

RECURSIVE NewRows(_, _, _, _)
\* the (id, document) pairs from position i on whose id is not in `have`
NewRows(ids, docs, have, i) ==
    IF i > Len(ids) THEN <<>>
    ELSE (IF ids[i] \in have THEN <<>> ELSE <<[id |-> ids[i], text |-> docs[i]]>>)
         \o NewRows(ids, docs, have, i + 1)

\* collection.add(documents, metadatas, ids): ids must match the documents in
\* number and be distinct; an id the collection already holds is refused or
\* skipped, by the client's version (onDup)
CollectionAdd(st, n, docs, ids, onDup) ==
    IF Len(ids) # Len(docs) THEN [st |-> st, kind |-> "ValueError"]
    ELSE IF HasDuplicates(ids) THEN [st |-> st, kind |-> "DuplicateIDError"]
    ELSE IF onDup = "raise" /\ Range(ids) \cap IdsOf(st.rows[n]) # {}
         THEN [st |-> st, kind |-> "DuplicateIDError"]
    ELSE [st |-> [st EXCEPT !.rows[n] = @ \o NewRows(ids, docs, IdsOf(@), 1)],
          kind |-> "ok"]

\* client.delete_collection(name): raises when there is no such collection
DeleteCollection(st, n) ==
    IF Exists(st, n)
    THEN [st |-> [names |-> st.names \ {n}, rows |-> [st.rows EXCEPT ![n] = <<>>]],
          kind |-> "ok"]
    ELSE [st |-> st, kind |-> "NotFound"]

\* client.reset(): raises unless ALLOW_RESET is set; else empties the database
ClientReset(st, allow) ==
    IF allow THEN [st |-> EmptyStore, kind |-> "ok"]
    ELSE [st |-> st, kind |-> "ResetNotAllowed"]

\* the index sets a nearest-neighbour search for n results may select: which
\* rows are nearest is decided by the embeddings, not by the facade
Selections(rows, n) ==
    {S \in SUBSET (1..Len(rows)) : Cardinality(S) = Min(n, Len(rows))}

RECURSIVE PickIds(_, _, _)
PickIds(rows, S, i) ==
    IF i > Len(rows) THEN <<>>
    ELSE (IF i \in S THEN <<rows[i].id>> ELSE <<>>) \o PickIds(rows, S, i + 1)

AllIds(rows) == [i \in 1..Len(rows) |-> rows[i].id]

----------------------------------------------------------------------------
(* ChromaDBMemory *)

\* __init__: the constructor gets or creates the default collection
ChromaInit(st) ==
    [st |-> GetOrCreateCollection(st, DefaultName),
     out |-> Out("init", DefaultName, "ok", <<>>, 0, <<>>), drawn |-> 0]

\* `if not collection: collection = self.collection_name`
ChromaName(arg) == IF arg = "None" THEN DefaultName ELSE arg

\* add_query(queries, collection, idx)
ChromaAddQuery(st, queries, collection, idx, nxt, onDup) ==
    LET ids   == IF Truthy(idx) THEN idx.v ELSE Uuids(nxt, Len(queries))
        drawn == IF Truthy(idx) THEN 0 ELSE Len(queries)
        name  == ChromaName(collection)
        r     == CollectionAdd(GetOrCreateCollection(st, name), name, queries, ids, onDup)
    IN  [st |-> r.st,
         out |-> Out("add", name, r.kind, IF r.kind = "ok" THEN ids ELSE <<>>, 0, <<>>),
         drawn |-> drawn]

\* query(query_texts, collection, n_results); sels[q] is the selection made
\* for the q-th query text
ChromaQuery(st, sels, collection, n_results) ==
    LET name == ChromaName(collection)
        st1  == GetOrCreateCollection(st, name)
    IN  [st |-> st1,
         out |-> Out("query", name, "ok", <<>>, 0,
                     [q \in 1..Len(sels) |-> PickIds(st1.rows[name], sels[q], 1)]),
         drawn |-> 0]

\* peek(collection, n_results)
ChromaPeek(st, collection, n_results) ==
    LET name == ChromaName(collection)
        st1  == GetOrCreateCollection(st, name)
        rows == st1.rows[name]
    IN  [st |-> st1,
         out |-> Out("peek", name, "ok",
                     AllIds(SubSeq(rows, 1, Min(n_results, Len(rows)))), 0, <<>>),
         drawn |-> 0]

\* get(collection, record_id); record_id 0 is None
ChromaGet(st, collection, record_id) ==
    LET name == ChromaName(collection)
        rows == st.rows[name]
    IN  IF ~Exists(st, name)
        THEN [st |-> st, out |-> Out("get", name, "NotFound", <<>>, 0, <<>>), drawn |-> 0]
        ELSE [st |-> st,
              out |-> Out("get", name, "ok",
                          IF record_id = 0 THEN AllIds(rows)
                          ELSE PickIds(rows, {i \in 1..Len(rows) : rows[i].id = record_id}, 1),
                          0, <<>>),
              drawn |-> 0]

\* delete(collection_name)
ChromaDelete(st, collection_name) ==
    LET name == ChromaName(collection_name)
        r    == DeleteCollection(st, name)
    IN  [st |-> r.st, out |-> Out("delete", name, r.kind, <<>>, 0, <<>>), drawn |-> 0]

\* count through get_or_create_collection, as query and peek go
ChromaCountCreates(st, collection_name) ==
    LET name == ChromaName(collection_name)
        st1  == GetOrCreateCollection(st, name)
    IN  [st |-> st1,
         out |-> Out("count", name, "ok", <<>>, Len(st1.rows[name]), <<>>),
         drawn |-> 0]

\* count(collection_name)
ChromaCount(st, collection_name) ==
    LET name == ChromaName(collection_name)
    IN  IF ~Exists(st, name)
        THEN [st |-> st, out |-> Out("count", name, "NotFound", <<>>, 0, <<>>), drawn |-> 0]
        ELSE [st |-> st,
              out |-> Out("count", name, "ok", <<>>, Len(st.rows[name]), <<>>),
              drawn |-> 0]

\* reset that deletes the default collection alone
ChromaResetDefaultOnly(st, allow) ==
    LET r == IF allow /\ Exists(st, DefaultName) THEN DeleteCollection(st, DefaultName)
             ELSE ClientReset(st, allow)
    IN  [st |-> r.st, out |-> Out("reset", DefaultName, r.kind, <<>>, 0, <<>>), drawn |-> 0]

\* reset()
ChromaReset(st, allow) ==
    LET r == ClientReset(st, allow)
    IN  [st |-> r.st, out |-> Out("reset", DefaultName, r.kind, <<>>, 0, <<>>), drawn |-> 0]

----------------------------------------------------------------------------
(* The lancedb connection, by the effect of the calls LanceDBMemory makes *)

\* client.create_table(name, data=data)
CreateTable(st, n, data) ==
    [names |-> st.names \cup {n}, rows |-> [st.rows EXCEPT ![n] = data]]

\* client.open_table(name).add(data=data): lancedb appends, it checks no ids
TableAdd(st, n, data) == [st EXCEPT !.rows[n] = @ \o data]

\* client.drop_table(name): raises when there is no such table
DropTable(st, n) ==
    IF Exists(st, n)
    THEN [st |-> [names |-> st.names \ {n}, rows |-> [st.rows EXCEPT ![n] = <<>>]],
          kind |-> "ok"]
    ELSE [st |-> st, kind |-> "NotFound"]

RECURSIVE WithoutId(_, _)
\* table.delete("id = '<record_id>'"): the rows left
WithoutId(rows, record_id) ==
    IF rows = <<>> THEN <<>>
    ELSE (IF Head(rows).id = record_id THEN <<>> ELSE <<Head(rows)>>)
         \o WithoutId(Tail(rows), record_id)

----------------------------------------------------------------------------
(* LanceDBMemory *)

\* a texts argument: one string, or a list of strings
TextsArgs ==
    {[str |-> TRUE, v |-> <<t>>] : t \in Texts}
    \cup {[str |-> FALSE, v |-> s] : s \in NonEmptySeqs(Texts, MaxTexts)}

\* a metadata argument: None, one dict, or a list of len dicts
MetaArgs ==
    {[kind |-> "None", len |-> 0], [kind |-> "dict", len |-> 1]}
    \cup {[kind |-> "list", len |-> k] : k \in 1..MaxTexts}

\* __init__: connects; only the OpenAI embedding is implemented
LanceInit(st, platform) ==
    [st |-> st,
     out |-> Out("init", DefaultName,
                 IF platform = "OpenAI" THEN "ok" ELSE "NotImplementedError",
                 <<>>, 0, <<>>),
     drawn |-> 0]

\* `table_name = table_name or self.table_name`
LanceName(arg) == IF arg = "None" THEN DefaultName ELSE arg

\* `if isinstance(texts, str): texts = (texts, )`
LanceTexts(texts) == texts.v

\* the length of metadata after lines 205-210 (-1: the assert fails)
LanceMetaLen(texts, metadata) ==
    IF metadata.kind = "None" THEN Len(texts)
    ELSE IF metadata.kind = "dict" THEN 1
    ELSE IF Len(texts) = metadata.len THEN metadata.len ELSE -1

\* `data = [... for idx, text, embed, meta in zip(ids, texts, embeds, metadata)]`
LanceData(ids, texts, metaLen) ==
    [i \in 1..Min(Len(ids), Min(Len(texts), metaLen)) |-> [id |-> ids[i], text |-> texts[i]]]

\* add that opens the table without creating a missing one
LanceAddNoCreate(st, textsArg, metadata, table_name, idsArg, nxt) ==
    LET texts   == LanceTexts(textsArg)
        metaLen == LanceMetaLen(texts, metadata)
        name    == LanceName(table_name)
        ids     == IF Truthy(idsArg) THEN idsArg.v ELSE Uuids(nxt, Len(texts))
        data    == LanceData(ids, texts, metaLen)
        drawn   == IF Truthy(idsArg) THEN 0 ELSE Len(texts)
    IN  IF metaLen < 0
        THEN [st |-> st, out |-> Out("add", name, "AssertionError", <<>>, 0, <<>>),
              drawn |-> 0]
        ELSE IF ~Exists(st, name)
        THEN [st |-> st, out |-> Out("add", name, "NotFound", <<>>, 0, <<>>),
              drawn |-> drawn]
        ELSE [st |-> TableAdd(st, name, data),
              out |-> Out("add", name, "ok", ids, 0, <<>>),
              drawn |-> drawn]

\* add(texts, metadata, table_name, ids)
LanceAdd(st, textsArg, metadata, table_name, idsArg, nxt) ==
    LET texts   == LanceTexts(textsArg)
        metaLen == LanceMetaLen(texts, metadata)
        name    == LanceName(table_name)
        ids     == IF Truthy(idsArg) THEN idsArg.v ELSE Uuids(nxt, Len(texts))
        data    == LanceData(ids, texts, metaLen)
    IN  IF metaLen < 0
        THEN [st |-> st, out |-> Out("add", name, "AssertionError", <<>>, 0, <<>>),
              drawn |-> 0]
        ELSE [st |-> IF ~Exists(st, name) THEN CreateTable(st, name, data)
                     ELSE TableAdd(st, name, data),
              out |-> Out("add", name, "ok", ids, 0, <<>>),
              drawn |-> IF Truthy(idsArg) THEN 0 ELSE Len(texts)]

\* query(query_texts, table_name, n_results); sels[q] is the selection made
\* for the q-th query text
LanceQuery(st, sels, table_name, n_results) ==
    LET name == LanceName(table_name)
    IN  IF ~Exists(st, name)
        THEN [st |-> st, out |-> Out("query", name, "NotFound", <<>>, 0, <<>>), drawn |-> 0]
        ELSE [st |-> st,
              out |-> Out("query", name, "ok", <<>>, 0,
                          [q \in 1..Len(sels) |-> PickIds(st.rows[name], sels[q], 1)]),
              drawn |-> 0]

\* delete(record_id, table_name)
LanceDelete(st, record_id, table_name) ==
    LET name == LanceName(table_name)
    IN  IF ~Exists(st, name)
        THEN [st |-> st, out |-> Out("delete", name, "NotFound", <<>>, 0, <<>>), drawn |-> 0]
        ELSE [st |-> [st EXCEPT !.rows[name] = WithoutId(@, record_id)],
              out |-> Out("delete", name, "ok", <<>>, 0, <<>>), drawn |-> 0]

\* drop that catches the client's error and reports success
LanceDropSwallow(st, table_name) ==
    LET name == LanceName(table_name)
        r    == DropTable(st, name)
    IN  [st |-> r.st, out |-> Out("drop", name, "ok", <<>>, 0, <<>>), drawn |-> 0]

\* drop(table_name)
LanceDrop(st, table_name) ==
    LET name == LanceName(table_name)
        r    == DropTable(st, name)
    IN  [st |-> r.st, out |-> Out("drop", name, r.kind, <<>>, 0, <<>>), drawn |-> 0]

\* count(table_name)
LanceCount(st, table_name) ==
    LET name == LanceName(table_name)
    IN  IF ~Exists(st, name)
        THEN [st |-> st, out |-> Out("count", name, "NotFound", <<>>, 0, <<>>), drawn |-> 0]
        ELSE [st |-> st,
              out |-> Out("count", name, "ok", <<>>, Len(st.rows[name]), <<>>),
              drawn |-> 0]

\* reset(): `self.drop()`
LanceReset(st) ==
    LET r == LanceDrop(st, "None")
    IN  [st |-> r.st, out |-> Out("reset", DefaultName, r.out.kind, <<>>, 0, <<>>),
         drawn |-> 0]

----------------------------------------------------------------------------
(* The calls a program makes on one backend *)

\* the model's bounds on what a call may leave behind
WithinBounds(r) ==
    /\ nextId + r.drawn - 1 <= MaxGen
    /\ \A n \in Names : Len(r.st.rows[n]) <= MaxRows

\* the call's effect on backend b: the store, what the caller gets, the uuids drawn
Apply(b, r) ==
    /\ WithinBounds(r)
    /\ db' = [db EXCEPT ![b] = r.st]
    /\ res' = [res EXCEPT ![b] = r.out]
    /\ nextId' = nextId + r.drawn

Drives(b) == backend = b /\ ready[b]

\* the selections of one query call over `rows`, made with one query text
QuerySels(rows, n) == [1..1 -> Selections(rows, n)]

ChromaInitStep ==
    /\ backend = "chroma"
    /\ Apply("chroma", ChromaInit(db["chroma"]))
    /\ ready' = [ready EXCEPT !["chroma"] = TRUE]
    /\ UNCHANGED <<backend, allowReset, chatVars>>

ChromaAddQueryStep ==
    /\ Drives("chroma")
    /\ \E queries \in NonEmptySeqs(Texts, MaxTexts), collection \in NameArgs,
          idx \in IdsArgs, onDup \in {"raise", "skip"} :
          Apply("chroma", ChromaAddQuery(db["chroma"], queries, collection, idx, nextId, onDup))
    /\ UNCHANGED <<backend, ready, allowReset, chatVars>>

ChromaQueryStep ==
    /\ Drives("chroma")
    /\ \E collection \in NameArgs, n \in NResults :
          \E sels \in QuerySels(db["chroma"].rows[ChromaName(collection)], n) :
             Apply("chroma", ChromaQuery(db["chroma"], sels, collection, n))
    /\ UNCHANGED <<backend, ready, allowReset, chatVars>>

ChromaPeekStep ==
    /\ Drives("chroma")
    /\ \E collection \in NameArgs, n \in NResults :
          Apply("chroma", ChromaPeek(db["chroma"], collection, n))
    /\ UNCHANGED <<backend, ready, allowReset, chatVars>>

ChromaGetStep ==
    /\ Drives("chroma")
    /\ \E collection \in NameArgs, record_id \in {0} \cup ExplicitIds \cup 1..MaxGen :
          Apply("chroma", ChromaGet(db["chroma"], collection, record_id))
    /\ UNCHANGED <<backend, ready, allowReset, chatVars>>

ChromaDeleteStep ==
    /\ Drives("chroma")
    /\ \E collection_name \in NameArgs :
          Apply("chroma", ChromaDelete(db["chroma"], collection_name))
    /\ UNCHANGED <<backend, ready, allowReset, chatVars>>

ChromaCountStep ==
    /\ Drives("chroma")
    /\ \E collection_name \in NameArgs :
          Apply("chroma", ChromaCount(db["chroma"], collection_name))
    /\ UNCHANGED <<backend, ready, allowReset, chatVars>>

ChromaResetStep ==
    /\ Drives("chroma")
    /\ Apply("chroma", ChromaReset(db["chroma"], allowReset))
    /\ UNCHANGED <<backend, ready, allowReset, chatVars>>

LanceInitStep ==
    /\ backend = "lance"
    /\ \E platform \in Platforms :
          LET r == LanceInit(db["lance"], platform)
          IN  /\ Apply("lance", r)
              /\ ready' = [ready EXCEPT !["lance"] = @ \/ r.out.kind = "ok"]
    /\ UNCHANGED <<backend, allowReset, chatVars>>

LanceAddStep ==
    /\ Drives("lance")
    /\ \E texts \in TextsArgs, metadata \in MetaArgs, table_name \in NameArgs,
          ids \in IdsArgs :
          Apply("lance", LanceAdd(db["lance"], texts, metadata, table_name, ids, nextId))
    /\ UNCHANGED <<backend, ready, allowReset, chatVars>>

LanceQueryStep ==
    /\ Drives("lance")
    /\ \E table_name \in NameArgs, n \in NResults :
          \E sels \in QuerySels(db["lance"].rows[LanceName(table_name)], n) :
             Apply("lance", LanceQuery(db["lance"], sels, table_name, n))
    /\ UNCHANGED <<backend, ready, allowReset, chatVars>>

LanceDeleteStep ==
    /\ Drives("lance")
    /\ \E table_name \in NameArgs, record_id \in ExplicitIds \cup 1..MaxGen :
          Apply("lance", LanceDelete(db["lance"], record_id, table_name))
    /\ UNCHANGED <<backend, ready, allowReset, chatVars>>

LanceDropStep ==
    /\ Drives("lance")
    /\ \E table_name \in NameArgs :
          Apply("lance", LanceDrop(db["lance"], table_name))
    /\ UNCHANGED <<backend, ready, allowReset, chatVars>>

LanceCountStep ==
    /\ Drives("lance")
    /\ \E table_name \in NameArgs :
          Apply("lance", LanceCount(db["lance"], table_name))
    /\ UNCHANGED <<backend, ready, allowReset, chatVars>>

LanceResetStep ==
    /\ Drives("lance")
    /\ Apply("lance", LanceReset(db["lance"]))
    /\ UNCHANGED <<backend, ready, allowReset, chatVars>>

ChatIdle ==
    /\ pc = "prompt"
    /\ chat_history = <<>>
    /\ prompt = <<>>
    /\ text = <<>>
    /\ block = TRUE
    /\ nchunks = 0
    /\ calls = 0
    /\ passed = <<>>
    /\ outcome = "none"
    /\ yielded = <<>>
    /\ entryLen = 0

MemInit ==
    /\ ChatIdle
    /\ backend \in Backends
    /\ db = [b \in Backends |-> EmptyStore]
    /\ ready = [b \in Backends |-> FALSE]
    /\ res = [b \in Backends |-> NoOut]
    /\ nextId = 1
    /\ allowReset \in (IF backend = "chroma" THEN BOOLEAN ELSE {FALSE})

MemNext ==
    \/ ChromaInitStep
    \/ ChromaAddQueryStep
    \/ ChromaQueryStep
    \/ ChromaPeekStep
    \/ ChromaGetStep
    \/ ChromaDeleteStep
    \/ ChromaCountStep
    \/ ChromaResetStep
    \/ LanceInitStep
    \/ LanceAddStep
    \/ LanceQueryStep
    \/ LanceDeleteStep
    \/ LanceDropStep
    \/ LanceCountStep
    \/ LanceResetStep

SpecMem == MemInit /\ [][MemNext]_vars

----------------------------------------------------------------------------
(* Properties of the memory facades.  res'[b] is what the call that made   *)
(* the step gave its caller; db[b] and db'[b] are the store around it.     *)

\* the rows the step's call added to collection / table n of backend b
Stored(b, n) ==
    SubSeq(db'[b].rows[n], Len(db[b].rows[n]) + 1, Len(db'[b].rows[n]))

\* the step is an add that returned ids the facade generated
GeneratedAdd(b) ==
    /\ res'[b].op = "add"
    /\ res'[b].kind = "ok"
    /\ \A i \in 1..Len(res'[b].ids) : res'[b].ids[i] > 0

\* the step removes a collection / table by name (LanceDBMemory.reset is drop())
RemovalCall(b) ==
    res'[b].op \in (IF b = "chroma" THEN {"delete"} ELSE {"drop", "reset"})

\* C1: on both backends an add without explicit ids returns pairwise distinct
\* generated ids, each the id of a record that call stored in the addressed
\* collection / table, and a query returns only ids held by that collection /
\* table.
C1_GeneratedIdsStored ==
    [][\A b \in Backends :
          /\ GeneratedAdd(b) =>
                /\ ~HasDuplicates(res'[b].ids)
                /\ Range(res'[b].ids) \subseteq IdsOf(Stored(b, res'[b].name))
          /\ (res'[b].op = "query" /\ res'[b].kind = "ok") =>
                \A q \in 1..Len(res'[b].hits) :
                   Range(res'[b].hits[q]) \subseteq IdsOf(db'[b].rows[res'[b].name])
      ]_vars

\* C2: a reset without the opt-in is rejected and leaves the store as it was;
\* a count of the default collection / table right after a reset that returned
\* gives 0.
C2_ResetThenCountZero ==
    [][\A b \in Backends :
          /\ (b = "chroma" /\ res'[b].op = "reset" /\ ~allowReset) =>
                (res'[b].kind = "ResetNotAllowed" /\ db'[b] = db[b])
          /\ (res[b].op = "reset" /\ res[b].kind = "ok"
              /\ res'[b].op = "count" /\ res'[b].name = DefaultName) =>
                (res'[b].kind = "ok" /\ res'[b].n = 0)
      ]_vars

C5_ResetClearsAll ==
    \A b \in Backends :
       (res[b].op = "reset" /\ res[b].kind = "ok") =>
          \A n \in Names : db[b].rows[n] = <<>>

\* C5 amended: after a reset that returned, ChromaDBMemory holds no collection
\* and no record; LanceDBMemory holds no default table (its other tables are
\* not cleared).
C5_ResetClearsDefault ==
    /\ (res["chroma"].op = "reset" /\ res["chroma"].kind = "ok") =>
          db["chroma"] = EmptyStore
    /\ (res["lance"].op = "reset" /\ res["lance"].kind = "ok") =>
          (~Exists(db["lance"], DefaultName) /\ db["lance"].rows[DefaultName] = <<>>)

\* C5 witness: a ChromaDB reset that returned after records had been added
C5_Witness ==
    /\ res["chroma"].op = "reset"
    /\ res["chroma"].kind = "ok"
    /\ nextId > 1

\* C6 as claimed: a collection / table comes into existence only by an add to it.
C6_CreatedOnlyByAdd ==
    [][\A b \in Backends : \A n \in Names :
          (~Exists(db[b], n) /\ Exists(db'[b], n)) =>
             (res'[b].op = "add" /\ res'[b].name = n)
      ]_vars

\* C6 amended: a LanceDB table comes into existence only by an add to it that
\* returned; a ChromaDB collection comes into existence only by the constructor
\* (the default one) or by an add_query, query or peek that names it.
C6_CreationSites ==
    [][\A b \in Backends : \A n \in Names :
          (~Exists(db[b], n) /\ Exists(db'[b], n)) =>
             \/ b = "lance" /\ res'[b].op = "add" /\ res'[b].kind = "ok"
                /\ res'[b].name = n
             \/ b = "chroma" /\ res'[b].op = "init" /\ n = DefaultName
             \/ b = "chroma" /\ res'[b].op \in {"add", "query", "peek"}
                /\ res'[b].name = n
      ]_vars

\* C6 witness: a LanceDB table that exists after an add created it
C6_Witness ==
    /\ res["lance"].op = "add"
    /\ res["lance"].kind = "ok"
    /\ Exists(db["lance"], "notes")
    /\ Len(db["lance"].rows["notes"]) = Len(res["lance"].ids)

\* C10: a LanceDBMemory.add that returns has stored one record per returned
\* id: the table has grown by the length of the returned list, and the ids
\* of the rows it stored are the returned ids, in order.
C10_OneRecordPerId ==
    [][(res'["lance"].op = "add" /\ res'["lance"].kind = "ok") =>
          AllIds(Stored("lance", res'["lance"].name)) = res'["lance"].ids
      ]_vars

----------------------------------------------------------------------------
(* Chat: agent/utils/chat.py *)

\* the lines read at the prompt
Lines == {<<>>, <<" ">>, <<"h">>, <<" ", "h">>, <<"h", " ">>}

RECURSIVE LStrip(_)
LStrip(s) == IF s # <<>> /\ Head(s) = " " THEN LStrip(Tail(s)) ELSE s

RECURSIVE RStrip(_)
RStrip(s) ==
    IF s # <<>> /\ s[Len(s)] = " " THEN RStrip(SubSeq(s, 1, Len(s) - 1)) ELSE s

\* str.strip()
Strip(s) == RStrip(LStrip(s))

\* token.choices[0].delta.content: None, or a string
ContentNone == [none |-> TRUE, s |-> <<>>]

ContentStr(s) == [none |-> FALSE, s |-> s]

Contents == {ContentNone, ContentStr(<<>>), ContentStr(<<"a">>), ContentStr(<<"b">>)}

\* a chunk of the streamed response: a falsy one, one with an empty `choices`,
\* or one whose first choice has a delta content and a finish_reason
Chunks ==
    {[falsy |-> TRUE, choices |-> 0, content |-> ContentNone, finish |-> FALSE],
     [falsy |-> FALSE, choices |-> 0, content |-> ContentNone, finish |-> FALSE]}
    \cup {[falsy |-> FALSE, choices |-> 1, content |-> c, finish |-> f] :
             c \in Contents, f \in BOOLEAN}

Entry(role, content) == [role |-> role, content |-> content]

\* start, line 72, and handle_streaming, lines 48-51: a line is read and
\* stripped, and handle_streaming sets out
PromptStep ==
    /\ pc = "prompt"
    /\ Len(chat_history) < 2 * MaxTurns
    /\ \E line \in Lines : prompt' = Strip(line)
    /\ text' = <<>>
    /\ block' = TRUE
    /\ nchunks' = 0
    /\ calls' = 0
    /\ outcome' = "none"
    /\ yielded' = <<>>
    /\ entryLen' = Len(chat_history)
    /\ pc' = "generating"
    /\ UNCHANGED <<chat_history, passed, memVars>>

\* chat_generator, lines 32-35 and 39-40: the user turn is appended and
\* completions is called; if it raises, the error is printed and the
\* generator ends
CompletionsStep ==
    /\ pc = "generating"
    /\ chat_history' = Append(chat_history, Entry("user", prompt))
    /\ passed' = chat_history'
    /\ calls' = calls + 1
    /\ \E raises \in BOOLEAN :
          IF raises THEN outcome' = "callRaised" /\ pc' = "finishing"
          ELSE outcome' = "streaming" /\ pc' = "streaming"
    /\ UNCHANGED <<prompt, text, block, nchunks, yielded, entryLen, memVars>>

\* NextChunkStep with `text = content` in place of `text = text + content`
NextChunkStepOverwrite ==
    /\ pc = "streaming"
    /\ nchunks < MaxChunks
    /\ nchunks' = nchunks + 1
    /\ \E chunk \in Chunks :
          IF chunk.falsy
          THEN UNCHANGED <<pc, text, block, yielded, outcome>>
          ELSE IF chunk.choices = 0
          THEN /\ pc' = "crashed"
               /\ outcome' = "IndexError"
               /\ UNCHANGED <<text, block, yielded>>
          ELSE /\ yielded' = Append(yielded, chunk.content)
               /\ text' = IF ~chunk.content.none /\ chunk.content.s # <<>>
                          THEN chunk.content.s ELSE text
               /\ block' = IF chunk.finish THEN FALSE ELSE block
               /\ UNCHANGED <<pc, outcome>>
    /\ UNCHANGED <<chat_history, prompt, calls, passed, entryLen, memVars>>

\* chat_generator, lines 36-38, and handle_streaming, lines 52-62: the
\* response gives one more chunk; a truthy one is yielded and rendered
NextChunkStep ==
    /\ pc = "streaming"
    /\ nchunks < MaxChunks
    /\ nchunks' = nchunks + 1
    /\ \E chunk \in Chunks :
          IF chunk.falsy
          THEN UNCHANGED <<pc, text, block, yielded, outcome>>
          ELSE IF chunk.choices = 0
          THEN /\ pc' = "crashed"
               /\ outcome' = "IndexError"
               /\ UNCHANGED <<text, block, yielded>>
          ELSE /\ yielded' = Append(yielded, chunk.content)
               /\ text' = IF ~chunk.content.none /\ chunk.content.s # <<>>
                          THEN text \o chunk.content.s ELSE text
               /\ block' = IF chunk.finish THEN FALSE ELSE block
               /\ UNCHANGED <<pc, outcome>>
    /\ UNCHANGED <<chat_history, prompt, calls, passed, entryLen, memVars>>

\* chat_generator, line 36: the response is exhausted
StreamEndStep ==
    /\ pc = "streaming"
    /\ outcome' = "ended"
    /\ pc' = "finishing"
    /\ UNCHANGED <<chat_history, prompt, text, block, nchunks, calls, passed,
                   yielded, entryLen, memVars>>

\* StreamRaiseStep without the try / except: the exception leaves start
StreamRaiseStepUncaught ==
    /\ pc = "streaming"
    /\ outcome' = "iterRaised"
    /\ pc' = "crashed"
    /\ UNCHANGED <<chat_history, prompt, text, block, nchunks, calls, passed,
                   yielded, entryLen, memVars>>

\* chat_generator, lines 36 and 39-40: iterating the response raises; the
\* error is printed and the generator ends
StreamRaiseStep ==
    /\ pc = "streaming"
    /\ outcome' = "iterRaised"
    /\ pc' = "finishing"
    /\ UNCHANGED <<chat_history, prompt, text, block, nchunks, calls, passed,
                   yielded, entryLen, memVars>>

\* FinishStep appending the assistant turn only `if text:`
FinishStepSkipEmpty ==
    /\ pc = "finishing"
    /\ chat_history' = IF text # <<>> THEN Append(chat_history, Entry("assistant", text))
                       ELSE chat_history
    /\ pc' = "prompt"
    /\ UNCHANGED <<prompt, text, block, nchunks, calls, passed, outcome,
                   yielded, entryLen, memVars>>

\* handle_streaming, line 63, and start, line 70: the assistant turn is
\* appended and the loop goes back to the prompt
FinishStep ==
    /\ pc = "finishing"
    /\ chat_history' = Append(chat_history, Entry("assistant", text))
    /\ pc' = "prompt"
    /\ UNCHANGED <<prompt, text, block, nchunks, calls, passed, outcome,
                   yielded, entryLen, memVars>>

\* start, lines 73-74: KeyboardInterrupt or EOFError ends the process
InterruptStep ==
    /\ pc \in {"prompt", "generating", "streaming", "finishing"}
    /\ pc' = "exited"
    /\ UNCHANGED <<chat_history, prompt, text, block, nchunks, calls, passed,
                   outcome, yielded, entryLen, memVars>>

MemIdle ==
    /\ backend = "none"
    /\ db = [b \in Backends |-> EmptyStore]
    /\ ready = [b \in Backends |-> FALSE]
    /\ res = [b \in Backends |-> NoOut]
    /\ nextId = 1
    /\ allowReset = FALSE

\* Chat.__init__
ChatInit == ChatIdle /\ MemIdle

ChatNext ==
    \/ PromptStep
    \/ CompletionsStep
    \/ NextChunkStep
    \/ StreamEndStep
    \/ StreamRaiseStep
    \/ FinishStep
    \/ InterruptStep

SpecChat == ChatInit /\ [][ChatNext]_vars

----------------------------------------------------------------------------
(* Properties of the chat loop *)

RECURSIVE ConcatContents(_)
\* the contents of the yielded chunks joined in order (None joins as nothing)
ConcatContents(cs) ==
    IF cs = <<>> THEN <<>> ELSE Head(cs).s \o ConcatContents(Tail(cs))

Raised == {"callRaised", "iterRaised"}

\* C4: when a turn is over, the assistant entry appended last holds the
\* in-order concatenation of the contents of the chunks chat_generator yielded.
C4_AssistantIsConcatenation ==
    (pc = "prompt" /\ chat_history # <<>>) =>
       /\ chat_history[Len(chat_history)].role = "assistant"
       /\ chat_history[Len(chat_history)].content = ConcatContents(yielded)

\* C4 witness: a turn is over whose stream yielded a None content, then "a",
\* and then raised
C4_Witness ==
    /\ pc = "prompt"
    /\ outcome = "iterRaised"
    /\ yielded = <<ContentNone, ContentStr(<<"a">>)>>

\* C7: an exception of the completion call, raised by the call or while the
\* stream is iterated, never leaves start (only an IndexError of
\* token.choices[0] does); completions was called once for the prompt, the
\* turn is completed with the assistant entry and the loop is back at the prompt.
C7_CompletionErrorsCaught ==
    /\ outcome \in Raised => (pc \in {"finishing", "prompt", "exited"} /\ calls = 1)
    /\ (outcome \in Raised /\ pc = "finishing") => ENABLED FinishStep
    /\ (outcome \in Raised /\ pc = "prompt") => Len(chat_history) = entryLen + 2
    /\ pc = "crashed" => outcome = "IndexError"
    /\ calls <= 1

\* C7 witness: the loop is back at the prompt after the completion call of
\* the second prompt raised
C7_Witness ==
    /\ pc = "prompt"
    /\ outcome = "callRaised"
    /\ Len(chat_history) = 4
    /\ calls = 1

\* C8: the transcript alternates user and assistant entries starting with a
\* user entry; a completed handle_streaming has appended exactly the user
\* entry of its prompt and then an assistant entry; the history given to
\* completions ends with the user entry of the current prompt.
C8_TranscriptAlternates ==
    /\ \A i \in 1..Len(chat_history) :
          chat_history[i].role = IF i % 2 = 1 THEN "user" ELSE "assistant"
    /\ (pc = "prompt" /\ chat_history # <<>>) =>
          /\ Len(chat_history) = entryLen + 2
          /\ chat_history[entryLen + 1] = Entry("user", prompt)
    /\ calls >= 1 =>
          (passed # <<>> /\ passed[Len(passed)] = Entry("user", prompt))

\* C8 witness: two turns are over, the second one with a response that ended
\* without any content
C8_Witness ==
    /\ pc = "prompt"
    /\ Len(chat_history) = 4
    /\ outcome = "ended"
    /\ text = <<>>

----------------------------------------------------------------------------
(* The two facades driven side by side: every step makes the same call,    *)
(* with the arguments the two signatures share, on a ChromaDBMemory and on *)
(* a LanceDBMemory, each over a store of its own.  ALLOW_RESET is set.     *)

\* the effect of one call made on both backends
ApplyBoth(rc, rl) ==
    /\ nextId + rc.drawn + rl.drawn - 1 <= 2 * MaxPairGen
    /\ db' = [chroma |-> rc.st, lance |-> rl.st]
    /\ res' = [chroma |-> rc.out, lance |-> rl.out]
    /\ nextId' = nextId + rc.drawn + rl.drawn

BothReady == backend = "both" /\ ready["chroma"] /\ ready["lance"]

\* ChromaDBMemory(project_path) and LanceDBMemory(project_path), same config
PairInitStep ==
    /\ backend = "both"
    /\ \E platform \in Platforms :
          LET rl == LanceInit(db["lance"], platform)
          IN  /\ ApplyBoth(ChromaInit(db["chroma"]), rl)
              /\ ready' = [chroma |-> TRUE, lance |-> ready["lance"] \/ rl.out.kind = "ok"]
    /\ UNCHANGED <<backend, allowReset, chatVars>>

\* add_query(queries) and add(texts)
PairAddStep ==
    /\ BothReady
    /\ \E texts \in NonEmptySeqs(Texts, MaxTexts) :
          LET rc == ChromaAddQuery(db["chroma"], texts, "None", NoneArg, nextId, "raise")
              rl == LanceAdd(db["lance"], [str |-> FALSE, v |-> texts],
                             [kind |-> "None", len |-> 0], "None", NoneArg,
                             nextId + rc.drawn)
          IN  ApplyBoth(rc, rl)
    /\ UNCHANGED <<backend, ready, allowReset, chatVars>>

\* count() and count()
PairCountStep ==
    /\ BothReady
    /\ ApplyBoth(ChromaCount(db["chroma"], "None"), LanceCount(db["lance"], "None"))
    /\ UNCHANGED <<backend, ready, allowReset, chatVars>>

\* query(query_texts, n_results=n) and query(query_texts, n_results=n)
PairQueryStep ==
    /\ BothReady
    /\ \E n \in NResults :
          \E sc \in QuerySels(db["chroma"].rows[DefaultName], n),
             sl \in QuerySels(db["lance"].rows[DefaultName], n) :
             ApplyBoth(ChromaQuery(db["chroma"], sc, "None", n),
                       LanceQuery(db["lance"], sl, "None", n))
    /\ UNCHANGED <<backend, ready, allowReset, chatVars>>

\* delete() and drop()
PairDeleteStep ==
    /\ BothReady
    /\ ApplyBoth(ChromaDelete(db["chroma"], "None"), LanceDrop(db["lance"], "None"))
    /\ UNCHANGED <<backend, ready, allowReset, chatVars>>

\* reset() and reset()
PairResetStep ==
    /\ BothReady
    /\ ApplyBoth(ChromaReset(db["chroma"], allowReset), LanceReset(db["lance"]))
    /\ UNCHANGED <<backend, ready, allowReset, chatVars>>

PairInit ==
    /\ ChatIdle
    /\ backend = "both"
    /\ db = [b \in Backends |-> EmptyStore]
    /\ ready = [b \in Backends |-> FALSE]
    /\ res = [b \in Backends |-> NoOut]
    /\ nextId = 1
    /\ allowReset = TRUE

PairNext ==
    \/ PairInitStep
    \/ PairAddStep
    \/ PairCountStep
    \/ PairQueryStep
    \/ PairDeleteStep
    \/ PairResetStep

SpecPair == PairInit /\ [][PairNext]_vars

\* the two calls of the last step gave the same outcome: the same value, or
\* an error in both
SameOutcome(rc, rl) ==
    /\ (rc.kind = "ok") = (rl.kind = "ok")
    /\ rc.n = rl.n

\* the default collection exists exactly if the default table does
InStep ==
    Exists(db["chroma"], DefaultName) = Exists(db["lance"], DefaultName)

====
